---- MODULE Spec2Model ----
(***************************************************************************)
(* Search/storage subsystem of the Anki dictionary add-on:                 *)
(*   src/src/database/repository.py  (DictionaryRepository)                *)
(*   src/src/database/connection.py  (DatabaseConnection)                  *)
(*   src/dictdb.py                   (DictDB)                              *)
(*   src/init_db.py                  (initialize_sqlite_file)              *)
(*                                                                         *)
(* Strings are sequences of one-character strings.  The SQLite store is    *)
(* the record db = [langnames, seq, dictnames, tables]; committed is the   *)
(* last committed image of it and inTxn tells whether the connection has   *)
(* an open transaction (python sqlite3, default isolation level: a         *)
(* transaction is opened implicitly before INSERT/UPDATE/DELETE, never     *)
(* before DDL or SELECT).  service_conjugations is the attribute           *)
(* conjugations of SearchService, the rules loaded from the rule files.    *)
(* calls lists, for the search request under way, the calls of            *)
(* _deconjugate and _search_dictionary made by the loop of search_term.    *)
(* conns gives the state of every DatabaseConnection object, dictdb the    *)
(* attributes of DictDB that refer to one, block the with-block that is    *)
(* open on the connection of the plug-in.                                  *)
(***************************************************************************)
EXTENDS Integers, Sequences, FiniteSets, TLC

VARIABLES db, committed, inTxn, last, nops,
          pc, req, idx, results, total_count, conjugated_terms, queried, raised,
          service_conjugations, calls,
          conns, dictdb, block

vars == <<db, committed, inTxn, last, nops,
          pc, req, idx, results, total_count, conjugated_terms, queried, raised,
          service_conjugations, calls,
          conns, dictdb, block>>

connVars == <<conns, dictdb, block>>

dbVars == <<db, committed, inTxn, last, nops>>

searchVars == <<pc, req, idx, results, total_count, conjugated_terms, queried, raised,
                service_conjugations, calls>>

(***************************************************************************)
(* Bounds                                                                  *)
(***************************************************************************)
\* largest AUTOINCREMENT language id the model hands out
MaxLangId == 2

\* longest list given to addLanguages
MaxLangList == 2

\* most rows imported into one dictionary table
MaxRows == 1

\* number of storage operations in one run
MaxOps == 3

\* largest per-dictionary limit and global limit of a search request
MaxLimit == 2

\* longest dictionary group of a search request
MaxGroup == 2

\* most pieces a name is put together from
MaxPieces == 3

\* longest list of terms given to _deconjugate
MaxTerms == 2

\* most rules in a conjugation rule set
MaxRules == 2

(***************************************************************************)
(* Characters and strings                                                  *)
(***************************************************************************)
UpperSeq == <<"A","B","C","D","E","F","G","H","I","J","K","L","M",
              "N","O","P","Q","R","S","T","U","V","W","X","Y","Z">>

LowerSeq == <<"a","b","c","d","e","f","g","h","i","j","k","l","m",
              "n","o","p","q","r","s","t","u","v","w","x","y","z">>

Digits == <<"0","1","2","3","4","5","6","7","8","9">>

IsDigit(c) == \E i \in 1..10 : Digits[i] = c

\* str.lower() on one character
LowerChar(c) ==
  IF \E i \in 1..26 : UpperSeq[i] = c
    THEN LowerSeq[CHOOSE i \in 1..26 : UpperSeq[i] = c]
    ELSE c

\* str.upper() on one character
UpperChar(c) ==
  IF \E i \in 1..26 : LowerSeq[i] = c
    THEN UpperSeq[CHOOSE i \in 1..26 : LowerSeq[i] = c]
    ELSE c

\* str.lower()
Lower(s) == [i \in 1..Len(s) |-> LowerChar(s[i])]

\* str.capitalize(): first character upper-cased, the rest lower-cased
Capitalize(s) == [i \in 1..Len(s) |-> IF i = 1 THEN UpperChar(s[i]) ELSE LowerChar(s[i])]

\* s[i:]  (1-based, i may be Len(s)+1)
SuffixFrom(s, i) == [k \in 1..(Len(s) - i + 1) |-> s[k + i - 1]]

\* s.startswith(p) at position i
MatchesAt(s, i, p) ==
  /\ i + Len(p) - 1 <= Len(s)
  /\ \A k \in 1..Len(p) : s[i + k - 1] = p[k]

\* decimal digits of a positive integer, as str(n) gives them
RECURSIVE DigitsOf(_)
DigitsOf(n) ==
  IF n < 10 THEN <<Digits[n + 1]>>
  ELSE DigitsOf(n \div 10) \o <<Digits[(n % 10) + 1]>>

sName == <<"n","a","m","e">>

(***************************************************************************)
(* Name normalisation and table names                                      *)
(***************************************************************************)
\* the replacement table of _normalize_dict_name; quotes, the backslash and
\* the non-ASCII characters are written by their code points
Removed == {"[", "]", "(", ")", "{", "}", "<", ">", "U+0027", "U+0022", "U+0060", "U+00B4",
            "*", "?", "!", "@", "#", "$", "%", "^", "&", "=", "+", ",", ";", "~"}

ToUnderscore == {"/", "U+005C", "|", ":", "U+3000", " "}

ToDot == {"U+FF0E", "U+3002"}

\* characters of the classes [\x00-\x1F\x7F-\x9F], written by their code points
ControlChars == {"U+0000", "U+0009", "U+001F", "U+007F", "U+0085", "U+009F"}

\* length limit of a normalised name
NameLimit == 100

sUnnamed == <<"u","n","n","a","m","e","d","_","d","i","c","t","i","o","n","a","r","y">>

\* faulty variant: control characters stay
ReplaceAll_keep_control(s) ==
  LET replaced == [i \in 1..Len(s) |->
                     IF s[i] \in ToUnderscore THEN "_"
                     ELSE IF s[i] \in ToDot THEN "."
                     ELSE s[i]]
      Kept(c) == c \notin Removed
  IN SelectSeq(replaced, Kept)

\* the per-character effect of the replacement loop followed by the removal
\* of control characters: the replacement strings "_" and "." are not keys of
\* the table, so applying the replacements one key after the other gives the
\* same string as applying them character by character
ReplaceAll(s) ==
  LET replaced == [i \in 1..Len(s) |->
                     IF s[i] \in ToUnderscore THEN "_"
                     ELSE IF s[i] \in ToDot THEN "."
                     ELSE s[i]]
      Kept(c) == c \notin Removed /\ c \notin ControlChars
  IN SelectSeq(replaced, Kept)

\* faulty variant: only a leading character of the table is dropped
normalize_dict_name_head(name) ==
  IF name = <<>> THEN sUnnamed
  ELSE LET r == IF Head(name) \in Removed THEN Tail(name) ELSE name
           t == IF Len(r) > NameLimit THEN SubSeq(r, 1, NameLimit) ELSE r
       IN IF t = <<>> THEN sUnnamed ELSE t

\* DictionaryRepository._normalize_dict_name
normalize_dict_name(name) ==
  IF name = <<>> THEN sUnnamed
  ELSE LET r == ReplaceAll(name)
           t == IF Len(r) > NameLimit THEN SubSeq(r, 1, NameLimit) ELSE r
       IN IF t = <<>> THEN sUnnamed ELSE t

\* DictionaryRepository._format_dict_name: f'l{lang_id}name{name}'
format_dict_name(lang_id, name) == <<"l">> \o DigitsOf(lang_id) \o sName \o name

\* end (exclusive) of a match of the pattern l\d+name that starts at i, or 0
RECURSIVE DigitRunEnd(_, _)
DigitRunEnd(s, i) == IF i <= Len(s) /\ IsDigit(s[i]) THEN DigitRunEnd(s, i + 1) ELSE i

PrefixMatchEnd(s, i) ==
  IF i <= Len(s) /\ s[i] = "l" /\ i + 1 <= Len(s) /\ IsDigit(s[i + 1])
    THEN LET j == DigitRunEnd(s, i + 1)
         IN IF MatchesAt(s, j, sName) THEN j + 4 ELSE 0
    ELSE 0

\* re.sub(r'l\d+name', '', name) from position i on: the characters that lie
\* in no match.  A match holds the letter l only as its first character, so
\* two matches never overlap and every place where the pattern matches is one
\* of the matches re.sub removes.
CleanFrom(s, i) ==
  LET InMatch(k) == \E j \in i..k : PrefixMatchEnd(s, j) > k
      marked == [k \in 1..Len(s) |-> IF k < i \/ InMatch(k) THEN "" ELSE s[k]]
      Kept(c) == c # ""
  IN SelectSeq(marked, Kept)

\* faulty variant: nothing is stripped
clean_dict_name_keep(name) == name

\* DictionaryRepository._clean_dict_name
clean_dict_name(name) == CleanFrom(name, 1)

(***************************************************************************)
(* SQL pattern matching                                                    *)
(***************************************************************************)
\* s LIKE p with PRAGMA case_sensitive_like = ON: % matches any run of
\* characters, _ matches exactly one character
RECURSIVE Like(_, _)
Like(s, p) ==
  IF p = <<>> THEN s = <<>>
  ELSE IF Head(p) = "%"
    THEN \E k \in 0..Len(s) : Like(SuffixFrom(s, k + 1), Tail(p))
  ELSE IF s = <<>> THEN FALSE
  ELSE IF Head(p) = "_" \/ Head(p) = Head(s)
    THEN Like(Tail(s), Tail(p))
  ELSE FALSE

(***************************************************************************)
(* JSON text of a list of strings                                          *)
(***************************************************************************)
\* the double quote character
sQuote == "U+0022"

\* what json.loads raises on text that is not JSON
JSONDecodeError == <<"JSONDecodeError">>

\* the items of a JSON list, each in double quotes, joined by ", "
RECURSIVE json_items(_)
json_items(items) ==
  IF items = <<>> THEN <<>>
  ELSE <<sQuote>> \o Head(items) \o <<sQuote>>
       \o (IF Len(items) > 1 THEN <<",", " ">> ELSE <<>>)
       \o json_items(Tail(items))

\* json.dumps(list of str, ensure_ascii=False) for strings without quotes,
\* backslashes or control characters
json_dumps(items) == <<"[">> \o json_items(items) \o <<"]">>

\* position of the first double quote of text at or after i, 0 if none
QuoteAt(text, i) ==
  LET at == {k \in i..Len(text) : text[k] = sQuote}
  IN IF at = {} THEN 0 ELSE CHOOSE k \in at : \A m \in at : k <= m

\* the list items of text from position i (after "[" or after a comma), or
\* JSONDecodeError; whitespace between tokens is a run of spaces
RECURSIVE json_parse_items(_, _)
json_parse_items(text, i) ==
  IF i > Len(text) THEN JSONDecodeError
  ELSE IF text[i] = " " THEN json_parse_items(text, i + 1)
  ELSE IF text[i] # sQuote THEN JSONDecodeError
  ELSE LET j == QuoteAt(text, i + 1)
           item == SubSeq(text, i + 1, j - 1)
           k == IF j = 0 THEN 0
                ELSE LET rest == {m \in (j + 1)..Len(text) : text[m] # " "}
                     IN IF rest = {} THEN 0
                        ELSE CHOOSE m \in rest : \A n \in rest : m <= n
       IN IF j = 0 \/ k = 0 THEN JSONDecodeError
          ELSE IF text[k] = "]"
            THEN IF \A m \in (k + 1)..Len(text) : text[m] = " "
                   THEN <<item>> ELSE JSONDecodeError
          ELSE IF text[k] = ","
            THEN LET more == json_parse_items(text, k + 1)
                 IN IF more = JSONDecodeError THEN JSONDecodeError
                    ELSE <<item>> \o more
          ELSE JSONDecodeError

\* json.loads on the text of a list of strings: the list, or JSONDecodeError
json_loads(text) ==
  LET body == {m \in 1..Len(text) : text[m] # " "}
      first == IF body = {} THEN 0 ELSE CHOOSE m \in body : \A n \in body : m <= n
      second == IF first = 0 THEN 0
                ELSE LET rest == {m \in body : m > first}
                     IN IF rest = {} THEN 0
                        ELSE CHOOSE m \in rest : \A n \in rest : m <= n
  IN IF first = 0 \/ second = 0 \/ text[first] # "[" THEN JSONDecodeError
     ELSE IF text[second] = "]"
       THEN IF \A m \in body : m <= second THEN <<>> ELSE JSONDecodeError
     ELSE json_parse_items(text, first + 1)

(***************************************************************************)
(* The store                                                               *)
(***************************************************************************)
\* Python's None
None == "None"

sJa == <<"J","a">>

sEn == <<"E","n">>

\* language names given to addLanguages, deleteLanguage and add_dictionary
LangNames == {sJa, sEn}

sJM == <<"J","M">>

sjm == <<"j","m">>

sBracketTestDict == <<"[","T","e","s","t","]"," ","D","i","c","t">>

sTest_Dict == <<"T","e","s","t","_","D","i","c","t">>

sTestXDict == <<"T","e","s","t","X","D","i","c","t">>

sPrefixed == <<"l","1","n","a","m","e","J","M">>

sDash == <<"a","-","b">>

\* dictionary names given to add_dictionary
DictNameInputs == {sJM, sjm, sBracketTestDict, sTestXDict, sPrefixed, sDash}

sTerm == <<"t","e","r","m">>

sAltterm == <<"a","l","t","t","e","r","m">>

\* the term header configuration of the stored dictionaries (JSON text)
sTermHeader == json_dumps(<<sTerm>>)

\* the fields text a new registry row is given
sNoFields == <<"[", "]">>

\* term header configurations given to add_dictionary (JSON text)
HeaderInputs == {sTermHeader}

sSample == <<"S","a","m","p","l","e","D","i","c","t","i","o","n","a","r","y">>

\* a row of a dictionary table; pos, examples, audio and starCount are carried
\* by the code but never inspected, they are left out
Row(term, altterm, pronunciation, definition, frequency) ==
  [term |-> term, altterm |-> altterm, pronunciation |-> pronunciation,
   definition |-> definition, frequency |-> frequency]

\* rows given to importToDict
ImportRows == {Row(<<"c","a","t">>, <<>>, <<>>, <<"d">>, 1)}

\* initialize_sqlite_file: empty langnames and dictnames and the sample table
InitDb ==
  [langnames |-> {}, seq |-> 0, dictnames |-> {},
   tables |-> (format_dict_name(1, sSample) :> <<>>)]

\* a store file left by earlier sessions (DictDB.__init__ initialises the
\* file only when it does not exist): two languages, three dictionaries of
\* the first one, two of them with an imported row
StoredDb ==
  [langnames |-> {[id |-> 1, langname |-> sJa], [id |-> 2, langname |-> sEn]},
   seq |-> 2,
   dictnames |-> {[dictname |-> sJM, lid |-> 1, fields |-> sNoFields, addtype |-> "add",
                   termHeader |-> sTermHeader, duplicateHeader |-> 0],
                  [dictname |-> sTest_Dict, lid |-> 1, fields |-> sNoFields, addtype |-> "add",
                   termHeader |-> sTermHeader, duplicateHeader |-> 0],
                  [dictname |-> sTestXDict, lid |-> 1, fields |-> sNoFields, addtype |-> "add",
                   termHeader |-> sTermHeader, duplicateHeader |-> 0]},
   tables |-> (format_dict_name(1, sSample) :> <<>>)
              @@ (format_dict_name(1, sJM) :> <<Row(<<"c","a","t">>, <<>>, <<>>, <<"d">>, 1)>>)
              @@ (format_dict_name(1, sTest_Dict) :> <<>>)
              @@ (format_dict_name(1, sTestXDict) :> <<Row(<<"c","a","t">>, <<>>, <<>>, <<"d">>, 1)>>)]

\* characters SQLite accepts in an unquoted identifier
IsIdentChar(c) == c = "_" \/ IsDigit(c) \/ LowerChar(c) # c \/ UpperChar(c) # c

IsSqlIdent(s) == \A i \in 1..Len(s) : IsIdentChar(s[i])

\* table names are case-insensitive in SQLite
TableKey(d, t) ==
  IF \E k \in DOMAIN d.tables : Lower(k) = Lower(t)
    THEN CHOOSE k \in DOMAIN d.tables : Lower(k) = Lower(t)
    ELSE None

TableExists(d, t) == TableKey(d, t) # None

\* DictionaryRepository.get_language_id; 0 stands for None
get_language_id(d, language) ==
  IF \E r \in d.langnames : r.langname = language
    THEN (CHOOSE r \in d.langnames : r.langname = language).id
    ELSE 0

\* DictionaryRepository.get_all_languages / DictDB.getCurrentDbLangs
get_all_languages(d) == {r.langname : r \in d.langnames}

\* DictionaryRepository.get_dictionaries_by_language
get_dictionaries_by_language(d, language) ==
  LET lang_id == get_language_id(d, language)
  IN IF lang_id = 0 THEN {}
     ELSE {r.dictname : r \in {x \in d.dictnames : x.lid = lang_id}}

\* DictionaryRepository.get_all_dictionaries
get_all_dictionaries(d) == {format_dict_name(r.lid, r.dictname) : r \in d.dictnames}

\* faulty variant: creates nothing
create_dictionary_table_skip(d, table_name) == d

\* DictionaryRepository._create_dictionary_table: CREATE TABLE IF NOT EXISTS
\* (the five indexes live and die with the table)
create_dictionary_table(d, table_name) ==
  IF TableExists(d, table_name) THEN d
  ELSE [d EXCEPT !.tables = @ @@ (table_name :> <<>>)]

\* faulty variant: drops nothing
drop_tables_none(d, pattern) == d

\* DictionaryRepository._drop_tables: DROP TABLE for every table of
\* sqlite_master whose name is LIKE the pattern
drop_tables(d, pattern) ==
  LET hit == {k \in DOMAIN d.tables : Like(k, pattern)}
  IN [d EXCEPT !.tables = [k \in (DOMAIN d.tables) \ hit |-> d.tables[k]]]

\* the registry row written by add_dictionary
DictRow(clean_name, lang_id, term_header) ==
  [dictname |-> clean_name, lid |-> lang_id, fields |-> sNoFields, addtype |-> "add",
   termHeader |-> term_header, duplicateHeader |-> 0]

\* outcome of the last call
Outcome(op, arg, language, term_header, ok, msg, final, exc) ==
  [op |-> op, arg |-> arg, lang |-> language, hdr |-> term_header, ok |-> ok,
   msg |-> msg, final |-> final, raised |-> exc]

(***************************************************************************)
(* Registry operations                                                     *)
(***************************************************************************)
\* DictionaryRepository.add_dictionary.  The INSERT fails on the UNIQUE
\* dictname, CREATE TABLE fails on a name that is no identifier; the except
\* branch rolls the connection back to the last commit.
add_dictionary(name, language, term_header) ==
  /\ nops < MaxOps
  /\ nops' = nops + 1
  /\ LET lang_id == get_language_id(db, language)
         clean_name == normalize_dict_name(name)
         table_name == format_dict_name(lang_id, clean_name)
         inserted == [db EXCEPT !.dictnames = @ \cup {DictRow(clean_name, lang_id, term_header)}]
     IN IF lang_id = 0
          THEN /\ last' = Outcome("add_dictionary", name, language, term_header, FALSE,
                                  "Language not found", None, FALSE)
               /\ UNCHANGED <<db, committed, inTxn>>
        ELSE IF \E r \in db.dictnames : r.dictname = clean_name
          THEN /\ db' = committed
               /\ inTxn' = FALSE
               /\ last' = Outcome("add_dictionary", name, language, term_header, FALSE,
                                  "UNIQUE constraint failed: dictnames.dictname", None, FALSE)
               /\ UNCHANGED committed
        ELSE IF ~IsSqlIdent(table_name)
          THEN /\ db' = committed
               /\ inTxn' = FALSE
               /\ last' = Outcome("add_dictionary", name, language, term_header, FALSE,
                                  "syntax error", None, FALSE)
               /\ UNCHANGED committed
        ELSE /\ db' = create_dictionary_table(inserted, table_name)
             /\ committed' = db'
             /\ inTxn' = FALSE
             /\ last' = Outcome("add_dictionary", name, language, term_header, TRUE,
                                "Dictionary added successfully", clean_name, FALSE)

\* DictionaryRepository.delete_dictionary: _drop_tables(dict_name), DELETE of
\* the row named _clean_dict_name(dict_name), commit, VACUUM
delete_dictionary(dict_name) ==
  /\ nops < MaxOps
  /\ nops' = nops + 1
  /\ LET dropped == drop_tables(db, dict_name)
         clean_name == clean_dict_name(dict_name)
         deleted == [dropped EXCEPT !.dictnames = {r \in @ : r.dictname # clean_name}]
     IN /\ db' = deleted
        /\ committed' = deleted
        /\ inTxn' = FALSE
        /\ last' = Outcome("delete_dictionary", dict_name, None, None, TRUE, "", None, FALSE)

\* the INSERT statements of addLanguages, one per name, up to the first one
\* that violates UNIQUE(langname); AUTOINCREMENT hands out seq + 1
RECURSIVE InsertLangs(_, _)
InsertLangs(d, lang_list) ==
  IF lang_list = <<>> THEN [db |-> d, failed |-> FALSE]
  ELSE IF \E r \in d.langnames : r.langname = Head(lang_list)
    THEN [db |-> d, failed |-> TRUE]
  ELSE InsertLangs([d EXCEPT !.langnames = @ \cup {[id |-> d.seq + 1, langname |-> Head(lang_list)]},
                             !.seq = @ + 1],
                   Tail(lang_list))

\* DictDB.addLanguages: the commit is reached only if no INSERT raised
addLanguages(lang_list) ==
  /\ nops < MaxOps
  /\ db.seq + Len(lang_list) <= MaxLangId
  /\ nops' = nops + 1
  /\ LET r == InsertLangs(db, lang_list)
     IN /\ db' = r.db
        /\ IF r.failed
             THEN /\ inTxn' = TRUE
                  /\ UNCHANGED committed
             ELSE /\ inTxn' = FALSE
                  /\ committed' = r.db
        /\ last' = Outcome("addLanguages", lang_list, None, None, ~r.failed,
                           IF r.failed THEN "UNIQUE constraint failed: langnames.langname" ELSE "",
                           None, r.failed)

\* DictDB.deleteLanguage.  DROP TABLE is DDL: outside a transaction it is
\* committed at once.  PRAGMA foreign_keys = ON and dictnames.lid REFERENCES
\* langnames(id) make the DELETE raise while a registry row names the language.
deleteLanguage(langname) ==
  /\ nops < MaxOps
  /\ nops' = nops + 1
  /\ LET lang_id == get_language_id(db, langname)
         pattern == <<"l">> \o DigitsOf(lang_id) \o sName \o <<"%">>
         dropped == drop_tables(db, pattern)
     IN IF lang_id = 0
          THEN /\ last' = Outcome("deleteLanguage", langname, langname, None, TRUE, "", None, FALSE)
               /\ UNCHANGED <<db, committed, inTxn>>
        ELSE IF \E r \in db.dictnames : r.lid = lang_id
          THEN /\ db' = dropped
               /\ committed' = IF inTxn THEN committed ELSE dropped
               /\ inTxn' = TRUE
               /\ last' = Outcome("deleteLanguage", langname, langname, None, FALSE,
                                  "FOREIGN KEY constraint failed", None, TRUE)
        ELSE /\ db' = [dropped EXCEPT !.langnames = {r \in @ : r.langname # langname}]
             /\ committed' = db'
             /\ inTxn' = FALSE
             /\ last' = Outcome("deleteLanguage", langname, langname, None, TRUE, "", None, FALSE)

\* DictDB.importToDict: executemany INSERT, no commit
importToDict(dict_name, dictionary_data) ==
  /\ nops < MaxOps
  /\ TableExists(db, dict_name)
  /\ Len(db.tables[TableKey(db, dict_name)]) + Len(dictionary_data) <= MaxRows
  /\ nops' = nops + 1
  /\ db' = [db EXCEPT !.tables[TableKey(db, dict_name)] = @ \o dictionary_data]
  /\ inTxn' = TRUE
  /\ last' = Outcome("importToDict", dict_name, None, None, TRUE, "", None, FALSE)
  /\ UNCHANGED committed

\* DictDB.commitChanges / DatabaseConnection.commit
commitChanges ==
  /\ nops < MaxOps
  /\ nops' = nops + 1
  /\ committed' = db
  /\ inTxn' = FALSE
  /\ last' = Outcome("commitChanges", None, None, None, TRUE, "", None, FALSE)
  /\ UNCHANGED db

\* names under which a caller can refer to a registered dictionary: the
\* registry name and the table name of get_all_dictionaries
DictRefs(d) == {r.dictname : r \in d.dictnames} \cup get_all_dictionaries(d)

\* lists given to addLanguages
LangLists == UNION {[1..n -> LangNames] : n \in 1..MaxLangList}

\* the arguments of search_term while no search is running
NoRequest ==
  [term |-> <<>>, dictionaries |-> <<>>, search_mode |-> "", deinflect |-> FALSE,
   dict_limit |-> 0, max_defs |-> 0]

\* DictDB.connect may be called this many times
MaxConnects == 1

\* the DatabaseConnection objects: 1 is made by DictDB.__init__, 2 is the one
\* of AnkiDictionaryPlugin, the others are made by DictDB.connect
ConnIds == 1..(2 + MaxConnects)

PluginConn == 2

NoBlock == [kind |-> "none", changes |-> {}]

\* both connections open as their constructors leave them, no block entered
ConnectionIdle ==
  /\ conns = [i \in ConnIds |-> IF i <= 2 THEN "open" ELSE "none"]
  /\ dictdb = [db_connection |-> 1, c |-> 1, oldConnection |-> 0]
  /\ block = NoBlock

SearchIdle ==
  /\ pc = "idle"
  /\ req = NoRequest
  /\ idx = 0
  /\ results = <<>>
  /\ total_count = 0
  /\ conjugated_terms = <<>>
  /\ queried = <<>>
  /\ raised = FALSE
  /\ calls = <<>>

InitStore ==
  /\ db \in {InitDb, StoredDb}
  /\ committed = db
  /\ inTxn = FALSE
  /\ last = Outcome("init", None, None, None, TRUE, "", None, FALSE)
  /\ nops = 0
  /\ SearchIdle
  /\ ConnectionIdle
  /\ service_conjugations = <<>>

NextStore ==
  \/ \E name \in DictNameInputs, language \in LangNames, term_header \in HeaderInputs :
       add_dictionary(name, language, term_header) /\ UNCHANGED <<searchVars, connVars>>
  \/ \E dict_name \in DictRefs(db) : delete_dictionary(dict_name) /\ UNCHANGED <<searchVars, connVars>>
  \/ \E lang_list \in LangLists : addLanguages(lang_list) /\ UNCHANGED <<searchVars, connVars>>
  \/ \E langname \in LangNames : deleteLanguage(langname) /\ UNCHANGED <<searchVars, connVars>>
  \/ \E dict_name \in get_all_dictionaries(db), row \in ImportRows :
       importToDict(dict_name, <<row>>) /\ UNCHANGED <<searchVars, connVars>>
  \/ commitChanges /\ UNCHANGED <<searchVars, connVars>>

\* the registry operations, called one after the other on one connection
SpecStore == InitStore /\ [][NextStore]_vars

(***************************************************************************)
(* Search: terms, deinflection, query                                      *)
(***************************************************************************)
DICT_GOOGLE_IMAGES == <<"G","o","o","g","l","e"," ","I","m","a","g","e","s">>

DICT_FORVO == <<"F","o","r","v","o">>

SearchModes == {"Forward", "Backward", "Anywhere", "Exact", "Definition", "Example", "Pronunciation"}

\* list(set(...)): the elements of a set in some order
RECURSIVE SeqOf(_)
SeqOf(S) ==
  IF S = {} THEN <<>>
  ELSE LET x == CHOOSE y \in S : TRUE IN <<x>> \o SeqOf(S \ {x})

Range(q) == {q[i] : i \in 1..Len(q)}

\* DictionaryRepository._prepare_search_terms
prepare_search_terms(term) == SeqOf({term, Lower(term), Capitalize(term)})

\* faulty variant: Backward is a plain suffix match
apply_search_mode_suffix(terms, mode) ==
  IF mode = "Forward" \/ mode = "Pronunciation"
    THEN [i \in 1..Len(terms) |-> terms[i] \o <<"%">>]
  ELSE IF mode = "Backward"
    THEN [i \in 1..Len(terms) |-> <<"%">> \o terms[i]]
  ELSE IF mode = "Anywhere" \/ mode = "Definition" \/ mode = "Example"
    THEN [i \in 1..Len(terms) |-> <<"%">> \o terms[i] \o <<"%">>]
  ELSE terms

\* DictionaryRepository._apply_search_mode
apply_search_mode(terms, mode) ==
  IF mode = "Forward" \/ mode = "Pronunciation"
    THEN [i \in 1..Len(terms) |-> terms[i] \o <<"%">>]
  ELSE IF mode = "Backward"
    THEN [i \in 1..Len(terms) |-> <<"%", "_">> \o terms[i]]
  ELSE IF mode = "Anywhere" \/ mode = "Definition" \/ mode = "Example"
    THEN [i \in 1..Len(terms) |-> <<"%">> \o terms[i] \o <<"%">>]
  ELSE terms

\* DictionaryRepository._get_search_column
get_search_column(mode) ==
  IF mode \in {"Definition", "Example"} THEN "definition"
  ELSE IF mode = "Pronunciation" THEN "pronunciation"
  ELSE "term"

\* the operator _search_dictionary puts into the query
search_operator(search_mode) == IF search_mode = "Exact" THEN "=" ELSE "LIKE"

\* str.endswith
EndsWith(s, suffix) ==
  Len(suffix) <= Len(s) /\ MatchesAt(s, Len(s) - Len(suffix) + 1, suffix)

\* start of the rightmost occurrence of old in s, 0 if there is none
RightmostAt(s, old) ==
  LET hits == {i \in 1..Len(s) : MatchesAt(s, i, old)}
  IN IF hits = {} THEN 0 ELSE CHOOSE i \in hits : \A j \in hits : j <= i

\* faulty variant: replaces the leftmost occurrence
rreplace_left(s, old, new, occurrence) ==
  LET hits == {i \in 1..Len(s) : MatchesAt(s, i, old)}
      i == IF hits = {} THEN 0 ELSE CHOOSE h \in hits : \A j \in hits : h <= j
  IN IF occurrence = 0 \/ i = 0 THEN s
     ELSE SubSeq(s, 1, i - 1) \o new \o SuffixFrom(s, i + Len(old))

\* DictionaryRepository._rreplace: new.join(s.rsplit(old, occurrence)), old
\* not empty
RECURSIVE rreplace(_, _, _, _)
rreplace(s, old, new, occurrence) ==
  LET i == RightmostAt(s, old)
  IN IF occurrence = 0 \/ i = 0 THEN s
     ELSE rreplace(SubSeq(s, 1, i - 1), old, new, occurrence - 1)
            \o new \o SuffixFrom(s, i + Len(old))

AppendNew(list, x) == IF x \in Range(list) THEN list ELSE Append(list, x)

\* the body of the loop over conj['dict'] for one term and one rule
RECURSIVE DictFormLoop(_, _, _, _)
DictFormLoop(deconjugations, term, conj, k) ==
  IF k > Len(conj.dict) THEN deconjugations
  ELSE LET deinflected == rreplace(term, conj.inflected, conj.dict[k], 1)
           withPrefix ==
             IF conj.prefix # None /\ MatchesAt(deinflected, 1, conj.prefix)
               THEN AppendNew(deconjugations, SuffixFrom(deinflected, Len(conj.prefix) + 1))
               ELSE deconjugations
       IN DictFormLoop(AppendNew(withPrefix, deinflected), term, conj, k + 1)

RECURSIVE ConjLoop(_, _, _, _)
ConjLoop(deconjugations, term, conjugations, j) ==
  IF j > Len(conjugations) THEN deconjugations
  ELSE ConjLoop(IF EndsWith(term, conjugations[j].inflected)
                  THEN DictFormLoop(deconjugations, term, conjugations[j], 1)
                  ELSE deconjugations,
                term, conjugations, j + 1)

RECURSIVE TermLoop(_, _, _, _)
TermLoop(deconjugations, terms, conjugations, i) ==
  IF i > Len(terms) THEN deconjugations
  ELSE TermLoop(ConjLoop(deconjugations, terms[i], conjugations, 1), terms, conjugations, i + 1)

\* faulty variant: the length filter is applied to the original terms too
deconjugate_filter_all(terms, conjugations) ==
  LET deconjugations == TermLoop(<<>>, terms, conjugations, 1)
  IN SeqOf({d \in Range(terms) \cup Range(deconjugations) : Len(d) > 1})

\* DictionaryRepository._deconjugate
deconjugate(terms, conjugations) ==
  LET deconjugations == TermLoop(<<>>, terms, conjugations, 1)
      kept == {d \in Range(deconjugations) : Len(d) > 1}
  IN SeqOf(Range(terms) \cup kept)

\* column operator ? for one row and one pattern ('=' is exact, LIKE is
\* case-sensitive); a NULL column, written <<>>, matches nothing
Matches(row, column, operator, pattern) ==
  /\ row[column] # <<>>
  /\ IF operator = "=" THEN row[column] = pattern ELSE Like(row[column], pattern)

\* faulty variant: no ORDER BY, the rows come in table order
RECURSIVE OrderBy_table(_, _)
OrderBy_table(rows, I) ==
  IF I = {} THEN <<>>
  ELSE LET m == CHOOSE a \in I : \A b \in I : a <= b
       IN <<rows[m]>> \o OrderBy_table(rows, I \ {m})

\* ORDER BY LENGTH(term) ASC, frequency ASC over the rows at the indices I;
\* rows that tie come in table order
RECURSIVE OrderBy(_, _)
OrderBy(rows, I) ==
  IF I = {} THEN <<>>
  ELSE LET Before(a, b) ==
             \/ Len(rows[a].term) < Len(rows[b].term)
             \/ /\ Len(rows[a].term) = Len(rows[b].term)
                /\ \/ rows[a].frequency < rows[b].frequency
                   \/ rows[a].frequency = rows[b].frequency /\ a <= b
           m == CHOOSE a \in I : \A b \in I : Before(a, b)
       IN <<rows[m]>> \o OrderBy(rows, I \ {m})

\* faulty variant: has no LIMIT clause
build_search_query_nolimit(d, table, column, terms, operator, limit) ==
  LET rows == d.tables[TableKey(d, table)]
      hit == {i \in 1..Len(rows) : \E k \in 1..Len(terms) :
                Matches(rows[i], column, operator, terms[k])}
  IN OrderBy(rows, hit)

\* DictionaryRepository._build_search_query, as the store answers it:
\* SELECT ... FROM table WHERE column operator ? OR ... ORDER BY ... LIMIT limit
build_search_query(d, table, column, terms, operator, limit) ==
  LET rows == d.tables[TableKey(d, table)]
      hit == {i \in 1..Len(rows) : \E k \in 1..Len(terms) :
                Matches(rows[i], column, operator, terms[k])}
      ordered == OrderBy(rows, hit)
  IN IF Len(ordered) > limit THEN SubSeq(ordered, 1, limit) ELSE ordered

\* DictionaryRepository._row_to_entry: frequency is not selected
row_to_entry(row) == [row EXCEPT !.frequency = 0]

\* faulty variant: lets the storage error out
search_dictionary_raising(d, dict_name, terms, search_mode, limit) ==
  LET column == get_search_column(search_mode)
      operator == search_operator(search_mode)
  IN IF ~TableExists(d, dict_name) \/ ~IsSqlIdent(dict_name) \/ terms = <<>>
       THEN [entries |-> <<>>, raised |-> TRUE]
       ELSE LET rs == build_search_query(d, dict_name, column, terms, operator, limit)
            IN [entries |-> [i \in 1..Len(rs) |-> row_to_entry(rs[i])], raised |-> FALSE]

\* DictionaryRepository._search_dictionary: one query on the column of the
\* mode; a failing query (no such table, no valid statement) gives []
search_dictionary(d, dict_name, terms, search_mode, limit) ==
  LET column == get_search_column(search_mode)
      operator == search_operator(search_mode)
  IN IF ~TableExists(d, dict_name) \/ ~IsSqlIdent(dict_name) \/ terms = <<>>
       THEN [entries |-> <<>>, raised |-> FALSE]
       ELSE LET rs == build_search_query(d, dict_name, column, terms, operator, limit)
            IN [entries |-> [i \in 1..Len(rs) |-> row_to_entry(rs[i])], raised |-> FALSE]

(***************************************************************************)
(* Search: one request                                                     *)
(***************************************************************************)
sKo == <<"K","o">>

sOld == <<"O","l","d">>

sCats == <<"c","a","t","s">>

\* a store with two dictionaries of rows and a third one, Old, whose table is
\* gone while its registry row remains (deleteLanguage leaves it so)
SearchDb ==
  [langnames |-> {[id |-> 1, langname |-> sJa], [id |-> 2, langname |-> sEn]},
   seq |-> 2,
   dictnames |-> {DictRow(sJM, 1, sTermHeader), DictRow(sKo, 1, sTermHeader), DictRow(sOld, 2, sTermHeader)},
   tables |-> (format_dict_name(1, sJM) :>
                 << Row(<<"c","a","t","s","u","p">>, <<>>, <<>>, <<"r","e","d">>, 1),
                    Row(sCats, <<>>, <<"k","a","t","s">>, <<"p","e","t","s">>, 5),
                    Row(<<"c","a","t">>, <<>>, <<"k","a","t">>, <<"c","a","t","s","!">>, 3),
                    Row(<<"x","c","a","t","s">>, <<>>, <<>>, <<"w","i","l","d">>, 2),
                    Row(<<"y","c","a","t","s">>, <<>>, <<>>, <<"t","a","m","e">>, 1) >>)
              @@ (format_dict_name(1, sKo) :>
                 << Row(<<"n","e","k","o">>, sCats, <<>>, <<"p","e","t">>, 1),
                    Row(<<"i","n","u">>, <<>>, sCats, <<"d","o","g">>, 2) >>)]

\* the conjugation rules SearchService hands to search_term, by language
Conjugations ==
  (sJa :> << [inflected |-> <<"s">>, dict |-> << <<>> >>, prefix |-> None],
             [inflected |-> <<"t","s">>, dict |-> << <<"t">> >>, prefix |-> <<"c">>] >>)

\* dictionary references of a group, as getUserGroups builds them
GroupRefs ==
  {[dict |-> format_dict_name(1, sJM), lang |-> sJa],
   [dict |-> format_dict_name(1, sKo), lang |-> sJa],
   [dict |-> format_dict_name(2, sOld), lang |-> sEn],
   [dict |-> DICT_GOOGLE_IMAGES, lang |-> <<>>],
   [dict |-> DICT_FORVO, lang |-> <<>>]}

Groups == UNION {[1..n -> GroupRefs] : n \in 0..MaxGroup}

TermInputs == {sCats}

\* faulty variant: the branch for Forvo is missing
IsPlaceholder_images(dict_name) == dict_name = DICT_GOOGLE_IMAGES

IsPlaceholder(dict_name) == dict_name = DICT_GOOGLE_IMAGES \/ dict_name = DICT_FORVO

\* faulty variant: a new key goes to the front
Put_front(res, key, value) ==
  IF \E i \in 1..Len(res) : res[i].name = key
    THEN [i \in 1..Len(res) |-> IF res[i].name = key THEN [name |-> key, entries |-> value] ELSE res[i]]
    ELSE <<[name |-> key, entries |-> value]>> \o res

\* results[key] = value on a dict that keeps insertion order
Put(res, key, value) ==
  IF \E i \in 1..Len(res) : res[i].name = key
    THEN [i \in 1..Len(res) |-> IF res[i].name = key THEN [name |-> key, entries |-> value] ELSE res[i]]
    ELSE Append(res, [name |-> key, entries |-> value])

\* faulty variant: never leaves the loop early
cap_never(total, max_defs) == FALSE

\* the test before the break of search_term
cap_reached(total, max_defs) == total >= max_defs

\* the terms a dictionary of language lang is searched with
SearchTerms(lang) ==
  IF req.deinflect /\ lang \in DOMAIN service_conjugations
    THEN IF lang \in DOMAIN conjugated_terms
           THEN conjugated_terms[lang]
           ELSE deconjugate(prepare_search_terms(req.term), service_conjugations[lang])
    ELSE prepare_search_terms(req.term)

\* faulty variant: the forms are computed for every dictionary
needs_deconjugate_each(lang) ==
  req.deinflect /\ lang \in DOMAIN service_conjugations

\* the tests before the call of _deconjugate in search_term
needs_deconjugate(lang) ==
  req.deinflect /\ lang \in DOMAIN service_conjugations /\ lang \notin DOMAIN conjugated_terms

\* a call made by the loop of search_term, as calls records it: _deconjugate
\* with the terms it returned, _search_dictionary with the terms it was given
CallOf(fn, lang, dict_name, terms) ==
  [fn |-> fn, lang |-> lang, dict |-> dict_name, terms |-> terms]

\* DictionaryRepository.search_term, up to the loop
search_term(term, dictionaries, search_mode, deinflect, dict_limit, max_defs) ==
  /\ pc = "idle"
  /\ req' = [term |-> term, dictionaries |-> dictionaries, search_mode |-> search_mode,
             deinflect |-> deinflect, dict_limit |-> dict_limit, max_defs |-> max_defs]
  /\ results' = <<>>
  /\ total_count' = 0
  /\ conjugated_terms' = <<>>
  /\ idx' = 0
  /\ pc' = IF dictionaries = <<>> THEN "done" ELSE "loop"
  /\ calls' = <<>>
  /\ UNCHANGED <<queried, raised, service_conjugations>>

\* faulty variant: the loop stays on the same dict_info
NextDictionary_stay ==
  /\ idx' = idx
  /\ pc' = "loop"

\* leave the iteration for dict_info number idx + 1: the next one, or the
\* return when the group is exhausted
NextDictionary ==
  /\ idx' = idx + 1
  /\ pc' = IF idx + 1 = Len(req.dictionaries) THEN "done" ELSE "loop"

\* one iteration of the loop of search_term: what it does to its locals
search_term_iteration ==
  /\ pc = "loop"
  /\ LET dict_info == req.dictionaries[idx + 1]
         dict_name == dict_info.dict
         lang == dict_info.lang
         search_terms == apply_search_mode(SearchTerms(lang), req.search_mode)
         r == search_dictionary(db, dict_name, search_terms, req.search_mode, req.dict_limit)
     IN IF IsPlaceholder(dict_name)
          THEN /\ results' = Put(results, dict_name, <<>>)
               /\ NextDictionary
               /\ UNCHANGED <<total_count, conjugated_terms, queried, raised, calls>>
        ELSE /\ conjugated_terms' =
                  IF needs_deconjugate(lang)
                    THEN (lang :> SearchTerms(lang)) @@ conjugated_terms
                    ELSE conjugated_terms
             /\ calls' = calls
                          \o (IF needs_deconjugate(lang)
                                THEN <<CallOf("_deconjugate", lang, <<>>, SearchTerms(lang))>>
                                ELSE <<>>)
                          \o <<CallOf("_search_dictionary", lang, dict_name, search_terms)>>
             /\ queried' = Append(queried, dict_name)
             /\ IF r.raised
                  THEN /\ raised' = TRUE
                       /\ pc' = "raised"
                       /\ UNCHANGED <<results, total_count, idx>>
                ELSE IF r.entries # <<>>
                  THEN /\ results' = Put(results, clean_dict_name(dict_name), r.entries)
                       /\ total_count' = total_count + Len(r.entries)
                       /\ IF cap_reached(total_count + Len(r.entries), req.max_defs)
                            THEN pc' = "done" /\ UNCHANGED idx
                            ELSE NextDictionary
                       /\ UNCHANGED raised
                ELSE /\ NextDictionary
                     /\ UNCHANGED <<results, total_count, raised>>
  /\ UNCHANGED req

\* faulty variant: the forms computed for a language are stored in the rules
\* handed in instead of the local conjugated_terms
search_term_loop_caching ==
  /\ search_term_iteration
  /\ service_conjugations' = conjugated_terms'

\* one iteration of the loop of search_term; the rules handed in by the
\* caller are read, never assigned to
search_term_loop ==
  /\ search_term_iteration
  /\ UNCHANGED service_conjugations

\* one iteration of the loop on the connection: the query is a SELECT, which
\* neither writes nor opens a transaction
search_loop ==
  /\ search_term_loop
  /\ UNCHANGED <<dbVars, connVars>>

InitSearch ==
  /\ db = SearchDb
  /\ committed = SearchDb
  /\ inTxn = FALSE
  /\ last = Outcome("init", None, None, None, TRUE, "", None, FALSE)
  /\ nops = 0
  /\ SearchIdle
  /\ ConnectionIdle
  /\ service_conjugations = Conjugations

NextSearch ==
  \/ /\ pc = "idle"
     /\ \E term \in TermInputs, dictionaries \in Groups, search_mode \in SearchModes,
           deinflect \in BOOLEAN, dict_limit \in 1..MaxLimit, max_defs \in 1..MaxLimit :
          search_term(term, dictionaries, search_mode, deinflect, dict_limit, max_defs)
            /\ UNCHANGED <<dbVars, connVars>>
  \/ search_loop

\* one search request against a store that no one writes meanwhile
SpecSearch == InitSearch /\ [][NextSearch]_vars

\* a step of the loop as pc and idx show it: the break (idx stays) or the
\* move to the next dict_info.  Under [][NextSearch]_vars these are the steps
\* of search_loop, and like search_loop it is enabled whenever pc = "loop"
\* (the body of the loop is defined for every dict_info).
loop_step ==
  /\ pc = "loop"
  /\ \/ pc' = "done" /\ idx' = idx
     \/ pc' \in {"loop", "done"} /\ idx' = idx + 1

\* the same, with the loop running on: search_term is straight-line code
\* around a for loop, and the query of an iteration returns
SpecSearchLive == SpecSearch /\ WF_<<pc, idx>>(loop_step)

(***************************************************************************)
(* Properties of a search request (specification SpecSearch)               *)
(***************************************************************************)
RECURSIVE SumLen(_)
SumLen(res) == IF res = <<>> THEN 0 ELSE Len(Head(res).entries) + SumLen(Tail(res))

HasKey(res, key) == \E k \in 1..Len(res) : res[k].name = key

EntriesOf(res, key) == res[CHOOSE k \in 1..Len(res) : res[k].name = key].entries

IsStorageRef(g) == ~IsPlaceholder(g.dict)

\* the dictionaries of the group that the loop has gone through
Processed ==
  IF pc = "done" /\ idx < Len(req.dictionaries) THEN idx + 1 ELSE idx

\* the rows of dictionary g that the patterns of the request match in column
RowsIn(g, column) ==
  build_search_query(db, g.dict, column,
                     apply_search_mode(SearchTerms(g.lang), req.search_mode),
                     IF req.search_mode = "Exact" THEN "=" ELSE "LIKE", req.dict_limit)

\* C1: the result of a search with global limit max_defs holds at most
\* max_defs entries in all, and total_count is at most max_defs.
C1_GlobalLimitBoundsResult ==
  pc = "done" => /\ SumLen(results) <= req.max_defs
                 /\ total_count <= req.max_defs

\* C2: once the running total has reached the global limit, no further
\* dictionary of the group is queried.
C2_NoQueryAfterCap ==
  [][(pc # "idle" /\ total_count >= req.max_defs) => queried' = queried]_vars

\* C2 witness: the search ended on the cap with a storage dictionary of the
\* group left unqueried
C2_Witness ==
  /\ pc = "done"
  /\ total_count >= req.max_defs
  /\ idx + 1 < Len(req.dictionaries)
  /\ IsStorageRef(req.dictionaries[idx + 2])
  /\ TableExists(db, req.dictionaries[idx + 2].dict)
  /\ Len(queried) = 1

\* C3: no entry list of the result is longer than dict_limit.
C3_PerDictionaryLimit ==
  pc # "idle" => \A k \in 1..Len(results) : Len(results[k].entries) <= req.dict_limit

\* C3 witness: four rows of JM match %cats%, two are returned under limit 2
C3_Witness ==
  /\ pc = "done"
  /\ req.search_mode = "Anywhere"
  /\ ~req.deinflect
  /\ req.dict_limit = 2
  /\ HasKey(results, sJM)
  /\ Len(EntriesOf(results, sJM)) = 2

\* C4: when the query on the term column gives no row and the mode is none of
\* Definition, Example, Pronunciation, the same terms are tried on altterm and
\* then on pronunciation, and the rows of the first column that gives any are
\* the dictionary's entries.
C4_FallbackColumns ==
  pc = "done" =>
    \A i \in 1..Processed :
      LET g == req.dictionaries[i]
      IN (/\ IsStorageRef(g)
          /\ TableExists(db, g.dict)
          /\ req.search_mode \notin {"Definition", "Example", "Pronunciation"}
          /\ RowsIn(g, "term") = <<>>
          /\ RowsIn(g, "altterm") \o RowsIn(g, "pronunciation") # <<>>) =>
           /\ HasKey(results, clean_dict_name(g.dict))
           /\ LET found == IF RowsIn(g, "altterm") # <<>> THEN RowsIn(g, "altterm")
                           ELSE RowsIn(g, "pronunciation")
              IN EntriesOf(results, clean_dict_name(g.dict))
                   = [k \in 1..Len(found) |-> row_to_entry(found[k])]

\* the storage dictionaries of a group, in group order
RECURSIVE StorageNames(_)
StorageNames(group) ==
  IF group = <<>> THEN <<>>
  ELSE (IF IsStorageRef(Head(group)) THEN <<Head(group).dict>> ELSE <<>>)
         \o StorageNames(Tail(group))

\* C5: a storage error on one dictionary counts as no rows for that dictionary
\* only: the search does not raise, the dictionary adds no entries, and the
\* others are still queried (up to the cap) and their matching rows returned.
C5_StorageErrorIsLocal ==
  /\ ~raised
  /\ pc # "raised"
  /\ pc = "done" =>
       /\ total_count < req.max_defs => queried = StorageNames(req.dictionaries)
       /\ \A i \in 1..Len(req.dictionaries) :
            LET g == req.dictionaries[i]
            IN (IsStorageRef(g) /\ ~TableExists(db, g.dict)) =>
                 ~HasKey(results, clean_dict_name(g.dict))
       /\ \A i \in 1..Processed :
            LET g == req.dictionaries[i]
            IN (IsStorageRef(g) /\ TableExists(db, g.dict) /\ RowsIn(g, get_search_column(req.search_mode)) # <<>>) =>
                 /\ HasKey(results, clean_dict_name(g.dict))
                 /\ EntriesOf(results, clean_dict_name(g.dict)) # <<>>

\* C5 witness: Old, whose table is gone, came first and JM after it was
\* queried and is in the result
C5_Witness ==
  /\ pc = "done"
  /\ req.dictionaries = <<[dict |-> format_dict_name(2, sOld), lang |-> sEn],
                          [dict |-> format_dict_name(1, sJM), lang |-> sJa]>>
  /\ queried = <<format_dict_name(2, sOld), format_dict_name(1, sJM)>>
  /\ HasKey(results, sJM)
  /\ ~HasKey(results, sOld)

\* the place in the group of the dictionary whose entries are results[k]
RefOf(k) ==
  CHOOSE i \in 1..Len(req.dictionaries) :
    clean_dict_name(req.dictionaries[i].dict) = results[k].name

\* the rows of dictionary g that a pattern of the request matches
HitsIn(g) ==
  LET rows == db.tables[TableKey(db, g.dict)]
      patterns == apply_search_mode(SearchTerms(g.lang), req.search_mode)
  IN {i \in 1..Len(rows) : \E n \in 1..Len(patterns) :
        Matches(rows[i], get_search_column(req.search_mode),
                search_operator(req.search_mode), patterns[n])}

\* row a is not after row b in (term length, frequency) order
NotAfter(rows, a, b) ==
  \/ Len(rows[a].term) < Len(rows[b].term)
  \/ /\ Len(rows[a].term) = Len(rows[b].term)
     /\ rows[a].frequency <= rows[b].frequency

\* C17: every entry list of the result holds matching rows of its dictionary
\* in the order of term length and, for equal length, of stored frequency;
\* a matching row that is left out is not before any returned one.
C17_EntryOrder ==
  pc = "done" =>
    \A k \in 1..Len(results) :
      results[k].entries # <<>> =>
        LET g == req.dictionaries[RefOf(k)]
            rows == db.tables[TableKey(db, g.dict)]
            E == results[k].entries
            RowOf(n) == CHOOSE i \in HitsIn(g) : row_to_entry(rows[i]) = E[n]
            returned == {RowOf(n) : n \in 1..Len(E)}
        IN /\ \A n \in 1..Len(E) : \E i \in HitsIn(g) : row_to_entry(rows[i]) = E[n]
           /\ \A n, m \in 1..Len(E) : n < m => NotAfter(rows, RowOf(n), RowOf(m))
           /\ \A i \in HitsIn(g) \ returned : \A j \in returned : NotAfter(rows, j, i)

\* C17 witness: of the four rows of JM that match %cats%, cats (length 4) and
\* ycats (length 5, frequency 1) are returned under limit 2, ycats before the
\* rows xcats (frequency 2) and catsup that precede it in the table
C17_Witness ==
  /\ pc = "done"
  /\ req.search_mode = "Anywhere"
  /\ ~req.deinflect
  /\ req.dict_limit = 2
  /\ HasKey(results, sJM)
  /\ Len(EntriesOf(results, sJM)) = 2
  /\ EntriesOf(results, sJM)[1].term = sCats
  /\ EntriesOf(results, sJM)[2].term = <<"y","c","a","t","s">>

\* the first place in the group of a dictionary with the key of results[k]
FirstRefOf(k) ==
  CHOOSE i \in 1..Len(req.dictionaries) :
    /\ clean_dict_name(req.dictionaries[i].dict) = results[k].name
    /\ \A j \in 1..(i - 1) : clean_dict_name(req.dictionaries[j].dict) # results[k].name

\* C18: the keys of the result come in the order of their dictionaries in the
\* group; a storage dictionary is a key only with a non-empty entry list, and
\* only when the loop reached it and its query gave rows.
C18_KeysInGroupOrder ==
  pc = "done" =>
    /\ \A k \in 1..Len(results) :
         \E i \in 1..Processed :
           /\ clean_dict_name(req.dictionaries[i].dict) = results[k].name
           /\ IsStorageRef(req.dictionaries[i]) =>
                /\ results[k].entries # <<>>
                /\ TableExists(db, req.dictionaries[i].dict)
                /\ HitsIn(req.dictionaries[i]) # {}
    /\ \A k, m \in 1..Len(results) : k < m => FirstRefOf(k) < FirstRefOf(m)

\* C18 witness: JM and the placeholder after it are the keys, in the order
\* of the group
C18_Witness ==
  /\ pc = "done"
  /\ Len(req.dictionaries) = 2
  /\ req.dictionaries[1].dict = format_dict_name(1, sJM)
  /\ req.dictionaries[2].dict = DICT_FORVO
  /\ Len(results) = 2
  /\ results[1].name = sJM
  /\ results[2].name = DICT_FORVO

\* C20: a started search never raises, goes through the dictionaries of its
\* group one after the other without coming back to one, and ends: with the
\* group exhausted or on the global cap.
C20_SearchTerminates ==
  /\ [](pc \in {"idle", "loop", "done"} /\ ~raised)
  /\ [](pc # "idle" => idx <= Len(req.dictionaries) /\ Len(queried) <= Len(req.dictionaries))
  /\ [][pc = "loop" => (idx' = idx + 1 \/ pc' = "done")]_<<pc, idx>>
  /\ [](pc = "done" => (idx = Len(req.dictionaries) \/ total_count >= req.max_defs))
  /\ (pc = "loop" ~> pc = "done")

\* C20 witness: the search went through Old, whose query fails, and Ko, which
\* has no row for cats%, and ended with the group exhausted
C20_Witness ==
  /\ pc = "done"
  /\ req.search_mode = "Forward"
  /\ queried = <<format_dict_name(2, sOld), format_dict_name(1, sKo)>>
  /\ idx = 2
  /\ results = <<>>

(***************************************************************************)
(* Properties of the registry operations (specification SpecStore)        *)
(***************************************************************************)
\* a call has just returned (or raised): every operation counts itself
Called(op) == nops' = nops + 1 /\ last'.op = op

Registered(d, n) == \E r \in d.dictnames : r.dictname = n

\* C6: whenever add_dictionary fails it returns (False, message, None) without
\* raising, an unknown language is reported as "not found", and the language
\* table, the registry and the set of physical tables are the same as before
\* the call.
C6_AddFailureLeavesStorage ==
  [][(Called("add_dictionary") /\ ~last'.ok) =>
       /\ ~last'.raised
       /\ last'.final = None
       /\ (get_language_id(db, last'.lang) = 0 => last'.msg = "Language not found")
       /\ db'.langnames = db.langnames
       /\ db'.dictnames = db.dictnames
       /\ DOMAIN db'.tables = DOMAIN db.tables]_vars

\* C7: a successful add_dictionary returns the normalized name, the registry
\* then holds exactly one row of that name, with the language's id, fields [],
\* add-type add, duplicate-header 0 and the given term header, the table
\* l{id}name{normalized} exists, the dictionary is listed for the language and
\* all of it is committed; "[Test] Dict" is stored as "Test_Dict".
C7_AddDictionaryPersists ==
  (last.op = "add_dictionary" /\ last.ok) =>
    LET n == last.final
        id == get_language_id(db, last.lang)
    IN /\ n = normalize_dict_name(last.arg)
       /\ (last.arg = sBracketTestDict => n = sTest_Dict)
       /\ id > 0
       /\ {r \in db.dictnames : r.dictname = n}
            = {[dictname |-> n, lid |-> id, fields |-> sNoFields, addtype |-> "add",
                termHeader |-> last.hdr, duplicateHeader |-> 0]}
       /\ TableExists(db, <<"l">> \o DigitsOf(id) \o sName \o n)
       /\ n \in get_dictionaries_by_language(db, last.lang)
       /\ committed = db
       /\ ~inTxn

\* C7 witness: "[Test] Dict" has been added
C7_Witness ==
  /\ last.op = "add_dictionary"
  /\ last.ok
  /\ last.arg = sBracketTestDict
  /\ last.final = sTest_Dict

\* the re-add half of C8: add_dictionary called right after the delete of the
\* table l{id}name{n}, with a name that normalizes to n and the language of id
ReAdd(t) ==
  /\ Called("add_dictionary")
  /\ last.op = "delete_dictionary"
  /\ last.arg = t
  /\ get_language_id(db, last'.lang) > 0
  /\ t = format_dict_name(get_language_id(db, last'.lang), normalize_dict_name(last'.arg))

\* C8 as stated: delete_dictionary called with the name of a registered
\* dictionary removes its table and its registry row, and an add_dictionary of
\* the same name and language that follows succeeds with an empty table.
C8_DeleteByName ==
  [][/\ \A r \in db.dictnames :
          (Called("delete_dictionary") /\ last'.arg = r.dictname) =>
             /\ ~Registered(db', r.dictname)
             /\ ~TableExists(db', format_dict_name(r.lid, r.dictname))
     /\ \A id \in 1..MaxLangId, n \in {normalize_dict_name(x) : x \in DictNameInputs} :
          (Called("add_dictionary") /\ last.op = "delete_dictionary" /\ last.arg = n
             /\ id = get_language_id(db, last'.lang) /\ n = normalize_dict_name(last'.arg)) =>
             /\ last'.ok
             /\ db'.tables[TableKey(db', format_dict_name(id, n))] = <<>>]_vars

\* C8 as amended: delete_dictionary called with the table name t =
\* l{id}name{n} of a registered dictionary n, where the table is stored under
\* exactly that name and n holds no match of l<digits>name, removes the table
\* and the registry row; an add_dictionary of the same name and language that
\* follows succeeds and the table is then empty.
C8_DeleteByTableName ==
  [][/\ \A r \in db.dictnames :
          LET t == format_dict_name(r.lid, r.dictname)
          IN (Called("delete_dictionary") /\ last'.arg = t
                /\ t \in DOMAIN db.tables /\ clean_dict_name(t) = r.dictname) =>
               /\ ~Registered(db', r.dictname)
               /\ ~TableExists(db', t)
               /\ committed' = db'
     /\ LET t == last.arg
        IN (ReAdd(t) /\ ~TableExists(db, t)
              /\ clean_dict_name(t) = normalize_dict_name(last'.arg)) =>
             /\ last'.ok
             /\ TableExists(db', t)
             /\ db'.tables[TableKey(db', t)] = <<>>]_vars

\* C8 witness: in the stored file, whose dictionary JM holds a row, JM was
\* deleted by its table name and added again, and its table is empty
C8_Witness ==
  /\ nops = 2
  /\ Registered(db, sTestXDict)
  /\ last.op = "add_dictionary"
  /\ last.ok
  /\ last.final = sJM
  /\ last.lang = sJa
  /\ format_dict_name(1, sJM) \in DOMAIN db.tables
  /\ db.tables[format_dict_name(1, sJM)] = <<>>

\* C9: after delete_language(L), for a registered language L that has
\* dictionaries, L is no longer listed, no table named l{id}name... exists and
\* no registry row refers to L's id.
C9_DeleteLanguageCascades ==
  [][\A l \in db.langnames :
       (Called("deleteLanguage") /\ last'.arg = l.langname
          /\ \E r \in db.dictnames : r.lid = l.id) =>
         /\ ~last'.raised
         /\ l.langname \notin get_all_languages(db')
         /\ \A k \in DOMAIN db'.tables :
              ~Like(k, <<"l">> \o DigitsOf(l.id) \o sName \o <<"%">>)
         /\ \A r \in db'.dictnames : r.lid # l.id]_vars

\* C10: after add_languages(names) every name of the list is registered
\* exactly once and the insertions are committed, also when a name of the list
\* is registered already or occurs twice in it; the call does not abort.
C10_AddLanguagesIgnoresDuplicates ==
  (last.op = "addLanguages") =>
    /\ ~last.raised
    /\ \A i \in 1..Len(last.arg) :
         /\ Cardinality({r \in db.langnames : r.langname = last.arg[i]}) = 1
         /\ \E r \in committed.langnames : r.langname = last.arg[i]
    /\ ~inTxn

(***************************************************************************)
(* Names: normalize, format, clean applied to one name                     *)
(***************************************************************************)
\* a run of NameLimit - 1 letters: with two more characters the name crosses
\* the length limit
sLong == [i \in 1..(NameLimit - 1) |-> "a"]

\* the pieces names are put together from
NamePieces ==
  { <<"[">>, <<" ">>, <<"U+0009">>, <<"U+FF0E">>, <<"a">>, <<"l", "1">>, sName }

RECURSIVE Concat(_)
Concat(q) == IF q = <<>> THEN <<>> ELSE Head(q) \o Concat(Tail(q))

\* names of up to MaxPieces pieces, alone and after the long run
NameInputs ==
  {pre \o Concat(q) : pre \in {<<>>, sLong},
                      q \in UNION {[1..n -> NamePieces] : n \in 0..MaxPieces}}

\* the record of a call on a name: the name given, the language id, the
\* normalised name and the value returned
NameCall(op, arg, lang_id, norm, final) ==
  [op |-> op, arg |-> arg, lang_id |-> lang_id, norm |-> norm, final |-> final]

InitNames ==
  /\ db = InitDb
  /\ committed = InitDb
  /\ inTxn = FALSE
  /\ \E name \in NameInputs, lang_id \in 1..MaxLangId :
       last = NameCall("input", name, lang_id, None, None)
  /\ nops = 0
  /\ SearchIdle
  /\ ConnectionIdle
  /\ service_conjugations = <<>>

\* clean_name = self._normalize_dict_name(name)
normalize_call ==
  /\ last.op = "input"
  /\ last' = NameCall("normalize", last.arg, last.lang_id,
                      normalize_dict_name(last.arg), normalize_dict_name(last.arg))
  /\ nops' = nops + 1
  /\ UNCHANGED <<db, committed, inTxn>>

\* the normalised name given to _normalize_dict_name once more
normalize_again ==
  /\ last.op = "normalize"
  /\ last' = NameCall("normalize_again", last.arg, last.lang_id,
                      last.norm, normalize_dict_name(last.norm))
  /\ nops' = nops + 1
  /\ UNCHANGED <<db, committed, inTxn>>

\* table_name = self._format_dict_name(lang_id, clean_name)
format_call ==
  /\ last.op = "normalize"
  /\ last' = NameCall("format", last.arg, last.lang_id,
                      last.norm, format_dict_name(last.lang_id, last.norm))
  /\ nops' = nops + 1
  /\ UNCHANGED <<db, committed, inTxn>>

\* self._clean_dict_name(table_name)
clean_call ==
  /\ last.op = "format"
  /\ last' = NameCall("clean", last.arg, last.lang_id,
                      last.norm, clean_dict_name(last.final))
  /\ nops' = nops + 1
  /\ UNCHANGED <<db, committed, inTxn>>

NextNames ==
  \/ normalize_call /\ UNCHANGED <<searchVars, connVars>>
  \/ normalize_again /\ UNCHANGED <<searchVars, connVars>>
  \/ format_call /\ UNCHANGED <<searchVars, connVars>>
  \/ clean_call /\ UNCHANGED <<searchVars, connVars>>

\* the name functions applied to one name of NameInputs
SpecNames == InitNames /\ [][NextNames]_vars

\* some part of s is a match of l\d+name
HasPrefixPattern(s) == \E i \in 1..Len(s) : PrefixMatchEnd(s, i) > 0

C12_NormalizeIdempotent ==
  last.op = "normalize_again" => last.final = last.norm

\* C12 witnesses: the second normalisation was applied to the result of a
\* name that lost characters and was cut at the length limit, and to the
\* fallback name
C12_Witness ==
  /\ last.op = "normalize_again"
  /\ Len(last.arg) > NameLimit
  /\ Len(last.norm) = NameLimit
  /\ \E i \in 1..Len(last.arg) : last.arg[i] \in Removed

\* C13: the normalised name is not empty, has at most 100 characters, holds
\* no character of the replacement table and no control character, and is
\* "unnamed_dictionary" when the name is empty or all its characters are
\* stripped.
C13_NormalizeRange ==
  last.op = "normalize" =>
    /\ last.final # <<>>
    /\ Len(last.final) <= 100
    /\ \A i \in 1..Len(last.final) :
         last.final[i] \notin Removed \cup ToUnderscore \cup ToDot \cup ControlChars
    /\ (\A i \in 1..Len(last.arg) : last.arg[i] \in Removed \cup ControlChars)
         => last.final = sUnnamed

\* C13 witness: a name of stripped characters only got the fallback name
C13_Witness ==
  /\ last.op = "normalize"
  /\ last.arg # <<>>
  /\ \A i \in 1..Len(last.arg) : last.arg[i] \in Removed \cup ControlChars
  /\ last.final = sUnnamed

(***************************************************************************)
(* Deinflection: _deconjugate applied to one list of terms and rule set    *)
(***************************************************************************)
sAbab == <<"a","b","a","b">>

\* terms: of length 1, matched by no rule, matched by one and by several
DeconjTerms == { sCats, <<"s">>, <<"a">>, <<"a","b">>, sAbab }

\* conjugation rules: {'inflected': ..., 'dict': [...]} with and without
\* 'prefix'; the suffix zz matches no term
DeconjRules ==
  { [inflected |-> <<"s">>, dict |-> << <<>> >>, prefix |-> None],
    [inflected |-> <<"t","s">>, dict |-> << <<"t">> >>, prefix |-> <<"c">>],
    [inflected |-> <<"a","b">>, dict |-> << <<"x">>, <<"a","b">> >>, prefix |-> None],
    [inflected |-> <<"b">>, dict |-> << <<>> >>, prefix |-> <<"a">>],
    [inflected |-> <<"z","z">>, dict |-> << <<"q">> >>, prefix |-> None] }

TermLists == UNION {[1..n -> DeconjTerms] : n \in 1..MaxTerms}

RuleSets == UNION {[1..n -> DeconjRules] : n \in 0..MaxRules}

DeconjCall(op, terms, conjugations, final) ==
  [op |-> op, terms |-> terms, conjugations |-> conjugations, final |-> final]

InitDeconj ==
  /\ db = InitDb
  /\ committed = InitDb
  /\ inTxn = FALSE
  /\ \E terms \in TermLists, conjugations \in RuleSets :
       last = DeconjCall("input", terms, conjugations, None)
  /\ nops = 0
  /\ SearchIdle
  /\ ConnectionIdle
  /\ service_conjugations = <<>>

\* conjugated_terms[lang] = self._deconjugate(terms, conjugations[lang])
deconjugate_call ==
  /\ last.op = "input"
  /\ last' = DeconjCall("deconjugate", last.terms, last.conjugations,
                        deconjugate(last.terms, last.conjugations))
  /\ nops' = nops + 1
  /\ UNCHANGED <<db, committed, inTxn>>

NextDeconj == deconjugate_call /\ UNCHANGED <<searchVars, connVars>>

\* _deconjugate applied to one list of TermLists and one rule set of RuleSets
SpecDeconj == InitDeconj /\ [][NextDeconj]_vars

CandidatesOf(t, conj, f) ==
  LET cand == SubSeq(t, 1, Len(t) - Len(conj.inflected)) \o f
  IN {cand} \cup
     (IF conj.prefix # None /\ Len(conj.prefix) <= Len(cand)
           /\ SubSeq(cand, 1, Len(conj.prefix)) = conj.prefix
        THEN {SubSeq(cand, Len(conj.prefix) + 1, Len(cand))}
        ELSE {})

\* the set C15 describes
ExpectedForms(terms, conjugations) ==
  LET OfRule(j) ==
        UNION {UNION {CandidatesOf(t, conjugations[j], conjugations[j].dict[k]) :
                        k \in 1..Len(conjugations[j].dict)} :
                 t \in {u \in Range(terms) : EndsWith(u, conjugations[j].inflected)}}
      candidates == UNION {OfRule(j) : j \in 1..Len(conjugations)}
  IN Range(terms) \cup {c \in candidates : Len(c) > 1}

QueryTermLists == TermLists \cup {<<>>}

QueryCall(op, terms, mode, patterns, column, operator) ==
  [op |-> op, terms |-> terms, mode |-> mode, patterns |-> patterns,
   column |-> column, operator |-> operator]

InitQuery ==
  /\ db = InitDb
  /\ committed = InitDb
  /\ inTxn = FALSE
  /\ \E terms \in QueryTermLists, mode \in SearchModes :
       last = QueryCall("input", terms, mode, None, None, None)
  /\ nops = 0
  /\ SearchIdle
  /\ ConnectionIdle
  /\ service_conjugations = <<>>

\* search_term applies the mode to the terms, _search_dictionary chooses the
\* column and the operator
build_query_call ==
  /\ last.op = "input"
  /\ last' = QueryCall("query", last.terms, last.mode,
                       apply_search_mode(last.terms, last.mode),
                       get_search_column(last.mode),
                       search_operator(last.mode))
  /\ nops' = nops + 1
  /\ UNCHANGED <<db, committed, inTxn>>

NextQuery == build_query_call /\ UNCHANGED <<searchVars, connVars>>

\* the query parts built for one list of terms and one mode
SpecQuery == InitQuery /\ [][NextQuery]_vars

\* the pattern the mode table gives for one term
PatternOf(t, mode) ==
  CASE mode \in {"Forward", "Pronunciation"} -> t \o <<"%">>
    [] mode = "Backward" -> <<"%", "_">> \o t
    [] mode \in {"Anywhere", "Definition", "Example"} -> <<"%">> \o t \o <<"%">>
    [] mode = "Exact" -> t

\* C16: for every list of terms there is one pattern per term, in the order of
\* the terms: term% for Forward and Pronunciation, %_term for Backward, %term%
\* for Anywhere, Definition and Example, the term itself for Exact; the column
\* is definition for Definition and Example, pronunciation for Pronunciation
\* and term otherwise; the operator is = for Exact and LIKE otherwise.
C16_QueryModeTable ==
  last.op = "query" =>
    /\ Len(last.patterns) = Len(last.terms)
    /\ \A i \in 1..Len(last.terms) : last.patterns[i] = PatternOf(last.terms[i], last.mode)
    /\ last.column = (CASE last.mode \in {"Definition", "Example"} -> "definition"
                        [] last.mode = "Pronunciation" -> "pronunciation"
                        [] OTHER -> "term")
    /\ last.operator = (CASE last.mode = "Exact" -> "=" [] OTHER -> "LIKE")

\* C16 witness: two different terms were given Backward patterns
C16_Witness ==
  /\ last.op = "query"
  /\ last.mode = "Backward"
  /\ Len(last.terms) = 2
  /\ last.terms[1] # last.terms[2]
  /\ last.patterns[2] = <<"%", "_">> \o last.terms[2]

(***************************************************************************)
(* SearchService: searches and reloads of the conjugation rules            *)
(***************************************************************************)
\* str.strip() of the characters the inputs hold
RECURSIVE LStrip(_)
LStrip(s) == IF s # <<>> /\ Head(s) = " " THEN LStrip(Tail(s)) ELSE s

RECURSIVE RStrip(_)
RStrip(s) ==
  IF s # <<>> /\ s[Len(s)] = " " THEN RStrip(SubSeq(s, 1, Len(s) - 1)) ELSE s

Strip(s) == RStrip(LStrip(s))

\* what _load_conjugations can find in the rule files of the languages: the
\* rules of Ja, or no readable file
ConjugationFiles == {Conjugations, <<>>}

\* the terms given to SearchService.search: empty, blank, padded, plain
ServiceTerms == {<<>>, <<" ">>, <<" ">> \o sCats, sCats}

\* the modes SearchService.search is called with: its default and one more
ServiceModes == {"Forward", "Anywhere"}

\* dictionary group configurations, with and without the key 'dictionaries'
DictionaryGroups == {[dictionaries |-> g] : g \in Groups} \cup {[name |-> "group"]}

ServiceCall(op) == [op |-> op]

InitService ==
  /\ db = SearchDb
  /\ committed = SearchDb
  /\ inTxn = FALSE
  /\ last = ServiceCall("init")
  /\ nops = 0
  /\ SearchIdle
  /\ ConnectionIdle
  /\ service_conjugations \in ConjugationFiles

\* SearchService.search up to the loop of search_term
search(term, dictionary_group, search_mode, deinflect, dict_limit, max_results) ==
  LET dictionaries == IF "dictionaries" \in DOMAIN dictionary_group
                        THEN dictionary_group.dictionaries ELSE <<>>
  IN /\ pc = "idle"
     /\ last' = ServiceCall("search")
     /\ IF term = <<>> \/ Strip(term) = <<>> \/ dictionaries = <<>>
          THEN /\ pc' = "done"
               /\ req' = [term |-> term, dictionaries |-> dictionaries,
                          search_mode |-> search_mode, deinflect |-> deinflect,
                          dict_limit |-> dict_limit, max_defs |-> max_results]
               /\ results' = <<>>
               /\ total_count' = 0
               /\ UNCHANGED <<idx, conjugated_terms, queried, raised, service_conjugations, calls>>
          ELSE search_term(Strip(term), dictionaries, search_mode, deinflect,
                           dict_limit, max_results)
     /\ UNCHANGED <<db, committed, inTxn, nops, connVars>>

\* the SearchResult is handed to the caller
search_return ==
  /\ pc = "done"
  /\ pc' = "idle"
  /\ req' = NoRequest
  /\ idx' = 0
  /\ results' = <<>>
  /\ total_count' = 0
  /\ conjugated_terms' = <<>>
  /\ queried' = <<>>
  /\ calls' = <<>>
  /\ UNCHANGED <<raised, service_conjugations>>
  /\ UNCHANGED <<dbVars, connVars>>

\* SearchService.reload_conjugations, between two searches
reload_conjugations ==
  /\ pc = "idle"
  /\ \E loaded \in ConjugationFiles : service_conjugations' = loaded
  /\ last' = ServiceCall("reload_conjugations")
  /\ UNCHANGED <<pc, req, idx, results, total_count, conjugated_terms, queried, raised, calls>>
  /\ UNCHANGED <<db, committed, inTxn, nops, connVars>>

NextService ==
  \/ /\ pc = "idle"
     /\ \E term \in ServiceTerms, dictionary_group \in DictionaryGroups,
           search_mode \in ServiceModes, deinflect \in BOOLEAN,
           dict_limit \in 1..MaxLimit, max_results \in 1..MaxLimit :
          search(term, dictionary_group, search_mode, deinflect, dict_limit, max_results)
  \/ search_loop
  \/ search_return
  \/ reload_conjugations

\* searches, one after the other, with reloads of the rules between them
SpecService == InitService /\ [][NextService]_vars

\* C19: a step of a search changes neither the conjugation rules of the
\* service nor the language table, the registry and the rows of the
\* dictionaries; the conjugation rules change only in reload_conjugations.
C19_SearchKeepsSharedState ==
  [][/\ (pc # "idle" \/ pc' # "idle") =>
          /\ service_conjugations' = service_conjugations
          /\ db' = db
          /\ committed' = committed
     /\ service_conjugations' # service_conjugations =>
          last'.op = "reload_conjugations"]_vars

\* C19 witness: a search with deinflection over the rules of Ja is done, it
\* computed forms for Ja, and the rules are as loaded
C19_Witness ==
  /\ pc = "done"
  /\ last.op = "search"
  /\ req.deinflect
  /\ sJa \in DOMAIN conjugated_terms
  /\ Len(conjugated_terms[sJa]) > 3
  /\ service_conjugations = Conjugations

(***************************************************************************)
(* Per-dictionary settings                                                 *)
(***************************************************************************)
sF == <<"F">>

sB == <<"B">>

\* field lists the caller encodes with json.dumps for setFieldsSetting
FieldLists == {<<>>, <<sF>>, <<sF, sB>>}

\* term header lists the caller encodes for setDictTermHeader
HeaderLists == {<<sTerm>>, <<sTerm, sAltterm>>}

AddTypes == {"add", "overwrite", "if_empty"}

DupHeaders == {0, 1}

\* names given to the accessors: the registered ones, a name that differs
\* from a registered one in case only, and a table name
SettingNames(d) == {r.dictname : r \in d.dictnames} \cup {sjm, sPrefixed}

\* the registry row named name: WHERE dictname = ? compares text exactly
RowsNamed(d, name) == {r \in d.dictnames : r.dictname = name}

TypeError == <<"TypeError">>

\* DictDB.getDuplicateSetting
getDuplicateSetting(d, name) ==
  IF RowsNamed(d, name) = {} THEN None
  ELSE LET r == CHOOSE x \in RowsNamed(d, name) : TRUE
       IN <<r.duplicateHeader, json_loads(r.termHeader)>>

\* DictDB.getDictTermHeader: fetchone()[0], a TypeError without a row
getDictTermHeader(d, dictname) ==
  IF RowsNamed(d, dictname) = {} THEN TypeError
  ELSE (CHOOSE x \in RowsNamed(d, dictname) : TRUE).termHeader

\* DictDB.getFieldsSetting
getFieldsSetting(d, name) ==
  IF RowsNamed(d, name) = {} THEN None
  ELSE json_loads((CHOOSE x \in RowsNamed(d, name) : TRUE).fields)

\* DictDB.getAddType
getAddType(d, name) ==
  IF RowsNamed(d, name) = {} THEN None
  ELSE (CHOOSE x \in RowsNamed(d, name) : TRUE).addtype

\* DictDB.getAddTypeAndFields
getAddTypeAndFields(d, dict_name) ==
  IF RowsNamed(d, dict_name) = {} THEN None
  ELSE LET r == CHOOSE x \in RowsNamed(d, dict_name) : TRUE
       IN <<json_loads(r.fields), r.addtype>>

\* what every setter does around its UPDATE: the statement opens a
\* transaction on the connection and commitChanges ends it
SettingDone(op, name, value, rows) ==
  /\ nops < MaxOps
  /\ nops' = nops + 1
  /\ db' = [db EXCEPT !.dictnames = rows]
  /\ committed' = db'
  /\ inTxn' = FALSE
  /\ last' = Outcome(op, name, None, value, TRUE, "", None, FALSE)

\* DictDB.setDupHeader
setDupHeader(duplicate_header, name) ==
  SettingDone("setDupHeader", name, duplicate_header,
    {IF r.dictname = name THEN [r EXCEPT !.duplicateHeader = duplicate_header] ELSE r :
       r \in db.dictnames})

\* DictDB.setDictTermHeader
setDictTermHeader(dictname, termheader) ==
  SettingDone("setDictTermHeader", dictname, termheader,
    {IF r.dictname = dictname THEN [r EXCEPT !.termHeader = termheader] ELSE r :
       r \in db.dictnames})

\* faulty variant: UPDATE without its WHERE clause
setFieldsSetting_all(name, fields) ==
  SettingDone("setFieldsSetting", name, fields,
    {[r EXCEPT !.fields = fields] : r \in db.dictnames})

\* DictDB.setFieldsSetting
setFieldsSetting(name, fields) ==
  SettingDone("setFieldsSetting", name, fields,
    {IF r.dictname = name THEN [r EXCEPT !.fields = fields] ELSE r :
       r \in db.dictnames})

\* DictDB.setAddType
setAddType(name, add_type) ==
  SettingDone("setAddType", name, add_type,
    {IF r.dictname = name THEN [r EXCEPT !.addtype = add_type] ELSE r :
       r \in db.dictnames})

InitSettings ==
  /\ db = StoredDb
  /\ committed = db
  /\ inTxn = FALSE
  /\ last = Outcome("init", None, None, None, TRUE, "", None, FALSE)
  /\ nops = 0
  /\ SearchIdle
  /\ ConnectionIdle
  /\ service_conjugations = <<>>

NextSettings ==
  \/ \E name \in SettingNames(db), duplicate_header \in DupHeaders :
       setDupHeader(duplicate_header, name) /\ UNCHANGED <<searchVars, connVars>>
  \/ \E dictname \in SettingNames(db), header \in HeaderLists :
       setDictTermHeader(dictname, json_dumps(header)) /\ UNCHANGED <<searchVars, connVars>>
  \/ \E name \in SettingNames(db), fields \in FieldLists :
       setFieldsSetting(name, json_dumps(fields)) /\ UNCHANGED <<searchVars, connVars>>
  \/ \E name \in SettingNames(db), add_type \in AddTypes :
       setAddType(name, add_type) /\ UNCHANGED <<searchVars, connVars>>

\* the settings accessors, called one after the other on a stored registry
SpecSettings == InitSettings /\ [][NextSettings]_vars

\* the row named name, with the setting written by op blanked out
OtherSettings(r, op) ==
  CASE op = "setDupHeader" -> [r EXCEPT !.duplicateHeader = 0]
    [] op = "setDictTermHeader" -> [r EXCEPT !.termHeader = <<>>]
    [] op = "setFieldsSetting" -> [r EXCEPT !.fields = <<>>]
    [] op = "setAddType" -> [r EXCEPT !.addtype = ""]

\* the getter of the setting written by op returns the value the caller set
ReadsBack(d, op, name, value) ==
  CASE op = "setDupHeader" ->
         /\ getDuplicateSetting(d, name) # None
         /\ getDuplicateSetting(d, name)[1] = value
    [] op = "setDictTermHeader" ->
         /\ getDictTermHeader(d, name) = value
         /\ \E h \in HeaderLists : /\ json_dumps(h) = value
                                   /\ getDuplicateSetting(d, name)[2] = h
    [] op = "setFieldsSetting" ->
         \E f \in FieldLists : /\ json_dumps(f) = value
                               /\ getFieldsSetting(d, name) = f
                               /\ getAddTypeAndFields(d, name)[1] = f
    [] op = "setAddType" ->
         /\ getAddType(d, name) = value
         /\ getAddTypeAndFields(d, name)[2] = value

Setters == {"setDupHeader", "setDictTermHeader", "setFieldsSetting", "setAddType"}

\* C21: a setter on a registered dictionary makes the getter of that
\* setting return the value set, leaves the other settings of that dictionary
\* and every row of every other dictionary as they were; on a name that is
\* not registered it changes no registry row.  Tables and languages are
\* never touched.
C21_SettingsKeyedUpdate ==
  [][\A op \in Setters :
       Called(op) =>
         LET name == last'.arg
             value == last'.hdr
         IN /\ db'.tables = db.tables
            /\ db'.langnames = db.langnames
            /\ {r \in db'.dictnames : r.dictname # name}
                 = {r \in db.dictnames : r.dictname # name}
            /\ Registered(db, name) =>
                 /\ ReadsBack(db', op, name, value)
                 /\ {OtherSettings(r, op) : r \in RowsNamed(db', name)}
                      = {OtherSettings(r, op) : r \in RowsNamed(db, name)}
            /\ ~Registered(db, name) => db'.dictnames = db.dictnames]_vars

\* C21 witness: the fields of Test_Dict were set to ["F", "B"] after its
\* add type had been changed, while JM keeps its empty field list
C21_Witness ==
  /\ last.op = "setFieldsSetting"
  /\ last.arg = sTest_Dict
  /\ getFieldsSetting(db, sTest_Dict) = <<sF, sB>>
  /\ getAddType(db, sTest_Dict) = "overwrite"
  /\ getFieldsSetting(db, sJM) = <<>>
  /\ nops = 3

(***************************************************************************)
(* Registry and tables                                                     *)
(***************************************************************************)
\* the physical table a registry row resolves to
TableOfRow(r) == format_dict_name(r.lid, r.dictname)

\* registry rows whose table does not exist
Dangling(d) == {r \in d.dictnames : ~TableExists(d, TableOfRow(r))}

\* dictionary tables no registry row resolves to
Orphans(d) ==
  {k \in DOMAIN d.tables : \A r \in d.dictnames : Lower(TableOfRow(r)) # Lower(k)}

\* C22: a completed add_dictionary, delete_dictionary (given the table
\* name of a registered dictionary) or deleteLanguage leaves no registry row
\* without its table and no table without its registry row that was not
\* there before
C22_RegistryMatchesTables ==
  [][(/\ \/ Called("add_dictionary")
         \/ Called("delete_dictionary") /\ last'.arg \in get_all_dictionaries(db)
         \/ Called("deleteLanguage")
      /\ ~last'.raised)
       => /\ Dangling(db') \subseteq Dangling(db)
          /\ Orphans(db') \subseteq Orphans(db)]_vars

\* C23: delete_dictionary leaves every dictionary other than the one
\* named with its registry row, its table and its entries
C23_DeleteOnlyNamed ==
  [][Called("delete_dictionary") =>
       \A r \in db.dictnames :
         r.dictname # clean_dict_name(last'.arg) =>
           /\ r \in db'.dictnames
           /\ TableExists(db, TableOfRow(r)) =>
                /\ TableExists(db', TableOfRow(r))
                /\ db'.tables[TableKey(db', TableOfRow(r))]
                     = db.tables[TableKey(db, TableOfRow(r))]]_vars

\* C24: two distinct registry rows never resolve to the same physical
\* table (SQLite table names are case-insensitive)
C24_TablesNotShared ==
  \A r1, r2 \in db.dictnames :
    r1 # r2 => Lower(TableOfRow(r1)) # Lower(TableOfRow(r2))

(***************************************************************************)
(* The search result as a whole                                            *)
(***************************************************************************)
\* C25: the total_count of a returned SearchResult is the number of
\* entries in its results, also when the group names a dictionary twice
C25_TotalCountIsSum ==
  pc = "done" => total_count = SumLen(results)

\* the calls of _deconjugate made for language lang so far
DeconjugateCalls(lang) ==
  {k \in 1..Len(calls) : calls[k].fn = "_deconjugate" /\ calls[k].lang = lang}

\* C26: within one request the inflection rules of a language are
\* applied at most once, to the base terms, and every dictionary of that
\* language is searched with the forms that one call returned; with
\* deinflect off, or for a language without rules, a dictionary is searched
\* with the base terms
C26_DeconjugateOncePerLanguage ==
  pc # "idle" =>
    /\ \A c \in Range(calls) : Cardinality(DeconjugateCalls(c.lang)) <= 1
    /\ \A i \in 1..Len(calls) :
         LET c == calls[i]
             terms == prepare_search_terms(req.term)
         IN /\ c.fn = "_deconjugate" =>
                 /\ req.deinflect
                 /\ c.lang \in DOMAIN service_conjugations
                 /\ c.terms = deconjugate(terms, service_conjugations[c.lang])
            /\ c.fn = "_search_dictionary" =>
                 IF req.deinflect /\ c.lang \in DOMAIN service_conjugations
                   THEN \E k \in DeconjugateCalls(c.lang) :
                          /\ k < i
                          /\ c.terms = apply_search_mode(calls[k].terms, req.search_mode)
                   ELSE c.terms = apply_search_mode(terms, req.search_mode)

\* C26 witness: two dictionaries of one language were searched with the
\* same forms, more than the base terms, after one call of _deconjugate
C26_Witness ==
  /\ pc = "done"
  /\ req.deinflect
  /\ Len(calls) = 3
  /\ calls[1].fn = "_deconjugate"
  /\ calls[2].dict = format_dict_name(1, sJM)
  /\ calls[3].dict = format_dict_name(1, sKo)
  /\ calls[2].terms = calls[3].terms
  /\ Len(calls[1].terms) > Len(prepare_search_terms(req.term))

\* the references that stand for an external source
PlaceholderNames == {DICT_GOOGLE_IMAGES, DICT_FORVO}

\* C27: the iteration for a placeholder reference (Google Images,
\* Forvo) makes no call to the store, records the reference with an empty
\* entry list, leaves total_count as it is and goes on to the next reference
\* of the group (or to the return after the last one)
C27_PlaceholderNotQueried ==
  [][(pc = "loop" /\ req.dictionaries[idx + 1].dict \in PlaceholderNames) =>
       LET dict_name == req.dictionaries[idx + 1].dict
       IN /\ queried' = queried
          /\ calls' = calls
          /\ total_count' = total_count
          /\ HasKey(results', dict_name)
          /\ EntriesOf(results', dict_name) = <<>>
          /\ \A k \in 1..Len(results) :
               results[k].name # dict_name => results[k] \in Range(results')
          /\ idx' = idx + 1
          /\ pc' = IF idx + 1 < Len(req.dictionaries) THEN "loop" ELSE "done"
          /\ ~raised']_<<pc, idx, results, total_count, queried, calls, raised>>

\* C27 witness: Forvo came first in the group and the dictionary after it
\* was searched and returned entries
C27_Witness ==
  /\ pc = "done"
  /\ Len(req.dictionaries) = 2
  /\ req.dictionaries[1].dict = DICT_FORVO
  /\ queried = <<format_dict_name(1, sJM)>>
  /\ Len(results) = 2
  /\ results[1] = [name |-> DICT_FORVO, entries |-> <<>>]
  /\ total_count = Len(results[2].entries)
  /\ total_count > 0

(***************************************************************************)
(* Connections                                                             *)
(***************************************************************************)
\* steps of a run on the connections
MaxSteps == 4

\* what a block on a connection can raise: an Exception and a BaseException
\* that is none
BlockExceptions == {"ValueError", "KeyboardInterrupt"}

\* table names given to CREATE TABLE
BlockTables == {format_dict_name(1, sJM)}

\* a step on the connections, with its outcome
ConnStep(op, arg, final, exc) ==
  /\ nops < MaxSteps
  /\ nops' = nops + 1
  /\ last' = Outcome(op, arg, None, None, ~exc, "", final, exc)

\* with db.transaction(): / with db: on the connection of the plug-in;
\* neither transaction() nor __enter__ begins a transaction
block_enter(kind) ==
  /\ block.kind = "none"
  /\ conns[PluginConn] = "open"
  /\ ConnStep(kind, "enter", None, FALSE)
  /\ block' = [kind |-> kind, changes |-> {}]
  /\ UNCHANGED <<db, committed, inTxn, conns, dictdb>>

\* db.execute("INSERT INTO langnames (langname) VALUES (?);", (langname,)),
\* in a block or outside of one: python's sqlite3 begins a transaction first
execute_insert(langname) ==
  /\ conns[PluginConn] = "open"
  /\ db.seq < MaxLangId
  /\ ~InsertLangs(db, <<langname>>).failed
  /\ ConnStep("execute", langname, None, FALSE)
  /\ db' = InsertLangs(db, <<langname>>).db
  /\ inTxn' = TRUE
  /\ block' = IF block.kind = "none" THEN block
              ELSE [block EXCEPT !.changes = @ \cup {[lang |-> langname]}]
  /\ UNCHANGED <<committed, conns, dictdb>>

\* db.execute("CREATE TABLE ..."): no transaction is begun for DDL, outside
\* of a transaction the table is committed at once
execute_create(table_name) ==
  /\ conns[PluginConn] = "open"
  /\ ~TableExists(db, table_name)
  /\ ConnStep("execute", table_name, None, FALSE)
  /\ db' = create_dictionary_table(db, table_name)
  /\ committed' = IF inTxn THEN committed ELSE create_dictionary_table(committed, table_name)
  /\ block' = IF block.kind = "none" THEN block
              ELSE [block EXCEPT !.changes = @ \cup {[table |-> table_name]}]
  /\ UNCHANGED <<inTxn, conns, dictdb>>

\* the block ends without an exception: self.commit()
block_exit ==
  /\ block.kind # "none"
  /\ ConnStep(block.kind, "exit", None, FALSE)
  /\ committed' = db
  /\ inTxn' = FALSE
  /\ block' = NoBlock
  /\ UNCHANGED <<db, conns, dictdb>>

\* the block raises exc: __exit__ rolls back on every exception, transaction()
\* on an Exception only; the exception goes on to the caller
block_raise(exc) ==
  /\ block.kind # "none"
  /\ ConnStep(block.kind, exc, None, TRUE)
  /\ IF block.kind = "transaction" /\ exc = "KeyboardInterrupt"
       THEN UNCHANGED <<db, committed, inTxn>>
       ELSE /\ db' = committed
            /\ inTxn' = FALSE
            /\ UNCHANGED committed
  /\ block' = NoBlock
  /\ UNCHANGED <<conns, dictdb>>

\* DatabaseConnection.close on connection i: a transaction that is open on
\* it is lost
Closed(i) == [conns EXCEPT ![i] = IF @ = "none" THEN @ ELSE "closed"]

\* what media_service.cleanup_temp_media can do: return, return after it
\* logged errors of its own, raise
MediaOutcomes == {"cleaned", "errors logged", "raises"}

\* AnkiDictionaryPlugin.cleanup: an exception of the media step is caught
\* and logged, the statements after it in the try block are skipped
cleanup(media) ==
  /\ block.kind = "none"
  /\ ConnStep("cleanup", media, None, FALSE)
  /\ IF media = "raises"
       THEN UNCHANGED <<conns, db, inTxn>>
       ELSE /\ conns' = Closed(PluginConn)
            /\ db' = committed
            /\ inTxn' = FALSE
  /\ UNCHANGED <<committed, dictdb, block>>

\* DictDB.connect: the DatabaseConnection held so far loses its last
\* reference; when __del__ runs (at once under reference counting, later or
\* never otherwise) it closes that connection and its cursor
connect(finalized) ==
  /\ \E i \in ConnIds : conns[i] = "none"
  /\ ConnStep("connect", finalized, None, FALSE)
  /\ LET new == CHOOSE i \in ConnIds : conns[i] = "none" /\ \A j \in ConnIds : conns[j] = "none" => i <= j
     IN /\ dictdb' = [db_connection |-> new, c |-> new, oldConnection |-> dictdb.c]
        /\ conns' = [i \in ConnIds |->
                       IF i = new THEN "open"
                       ELSE IF i = dictdb.db_connection /\ finalized THEN "closed"
                       ELSE conns[i]]
  /\ UNCHANGED <<db, committed, inTxn, block>>

\* DictDB.reload
reload ==
  /\ ConnStep("reload", None, None, FALSE)
  /\ IF dictdb.oldConnection # 0
       THEN /\ conns' = Closed(dictdb.db_connection)
            /\ dictdb' = [dictdb EXCEPT !.c = dictdb.oldConnection]
       ELSE UNCHANGED <<conns, dictdb>>
  /\ UNCHANGED <<db, committed, inTxn, block>>

\* DictDB.closeConnection
closeConnection ==
  /\ ConnStep("closeConnection", None, None, FALSE)
  /\ conns' = Closed(dictdb.db_connection)
  /\ UNCHANGED <<db, committed, inTxn, dictdb, block>>

\* DictDB.getCurrentDbLangs: the SELECT goes through
\* self.db_connection.execute, which raises RuntimeError without a cursor;
\* another connection sees what is committed
getCurrentDbLangs ==
  /\ IF conns[dictdb.db_connection] = "open"
       THEN ConnStep("getCurrentDbLangs", dictdb.db_connection, get_all_languages(committed), FALSE)
       ELSE ConnStep("getCurrentDbLangs", dictdb.db_connection, "RuntimeError", TRUE)
  /\ UNCHANGED <<db, committed, inTxn, conns, dictdb, block>>

InitConn ==
  /\ db = InitDb
  /\ committed = db
  /\ inTxn = FALSE
  /\ last = Outcome("init", None, None, None, TRUE, "", None, FALSE)
  /\ nops = 0
  /\ SearchIdle
  /\ ConnectionIdle
  /\ service_conjugations = <<>>

NextConn ==
  \/ \E kind \in {"transaction", "with"} : block_enter(kind) /\ UNCHANGED searchVars
  \/ \E langname \in LangNames : execute_insert(langname) /\ UNCHANGED searchVars
  \/ \E table_name \in BlockTables : execute_create(table_name) /\ UNCHANGED searchVars
  \/ block_exit /\ UNCHANGED searchVars
  \/ \E exc \in BlockExceptions : block_raise(exc) /\ UNCHANGED searchVars
  \/ \E media \in MediaOutcomes : cleanup(media) /\ UNCHANGED searchVars
  \/ \E finalized \in BOOLEAN : connect(finalized) /\ UNCHANGED searchVars
  \/ reload /\ UNCHANGED searchVars
  \/ closeConnection /\ UNCHANGED searchVars
  \/ getCurrentDbLangs /\ UNCHANGED searchVars

\* the connection of the plug-in and the connections of DictDB on one store
SpecConn == InitConn /\ [][NextConn]_vars

\* a change made in a block can be seen in store d
Visible(d, change) ==
  IF "lang" \in DOMAIN change
    THEN change.lang \in get_all_languages(d)
    ELSE TableExists(d, change.table)

\* C28: a block on a connection that ends normally leaves its changes
\* committed; a block that raises leaves none of its changes visible and
\* the exception goes on to the caller; the connection is open afterwards
C28_BlockCommitsOrRollsBack ==
  [][(block.kind # "none" /\ block'.kind = "none") =>
       /\ conns'[PluginConn] = "open"
       /\ ~last'.raised =>
            /\ \A change \in block.changes : Visible(committed', change)
            /\ db' = committed'
       /\ last'.raised => \A change \in block.changes : ~Visible(db', change)]_vars

\* C29: cleanup returns without raising and the connection of the
\* plug-in is closed after it, whatever the media step did
C29_CleanupClosesConnection ==
  [][Called("cleanup") => /\ ~last'.raised
                          /\ conns'[PluginConn] = "closed"]_vars

\* C30: after connect and reload, an operation of DictDB runs on an open
\* connection, the one DictDB held before connect
C30_ReloadRestoresConnection ==
  [][(last.op = "reload" /\ dictdb.oldConnection # 0 /\ Called("getCurrentDbLangs")) =>
       /\ ~last'.raised
       /\ last'.arg = dictdb.oldConnection
       /\ conns[dictdb.oldConnection] = "open"]_vars

====
